---- MODULE Spec2Model ----
(***************************************************************************)
(* Teebay product transaction engine: the GraphQL resolvers of             *)
(* server/src/resolvers (mutations.ts, queries.ts, fieldResolvers.ts) over *)
(* the Product and Transaction tables of the PostgreSQL store.             *)
(*                                                                         *)
(* Every resolver is an async function.  Each `await prisma...` is one     *)
(* database statement; between two statements of one request the           *)
(* statements of other requests may run.  A request slot therefore moves   *)
(* through one action per statement, the synchronous code that follows a   *)
(* statement being part of that statement's action.                        *)
(*                                                                         *)
(* Nullable columns and inputs are modelled as <<>> (null) or <<v>>.       *)
(***************************************************************************)
EXTENDS Integers, Sequences, FiniteSets, TLC

\* ------------------------------------------------------------------ bounds
MaxPrice == 1
MaxTime == 2
MaxDate == 3
MaxProducts == 1
MaxCalls == 3

\* ------------------------------------------------------------- value sets
Null == <<>>
Some(v) == <<v>>

Users == {"alice", "bob", "carol"}
Anonymous == "anonymous"
Callers == Users \cup {Anonymous}
\* Authorization headers that carry no valid token: "Bearer " with nothing
\* after it, a token that is not a JWT, and a token that was issued to alice
\* and has expired. Anonymous is the request without the header.
EmptyToken == "Bearer"
MalformedToken == "Bearer garbage"
ExpiredToken == "Bearer alice.expired"
Unidentified == {Anonymous, EmptyToken, MalformedToken, ExpiredToken}
\* The user who sends the credential, whatever the server makes of it.
Requester(caller) == IF caller = ExpiredToken THEN "alice" ELSE caller
Reqs == {"r1", "r2"}
NoReq == "none"

ProductIds == 1..MaxProducts
OptPrices == {Null} \cup {Some(v) : v \in 0..MaxPrice}
RentType == {"PER_HOUR", "PER_DAY"}
OptRentTypes == {Null} \cup {Some(v) : v \in RentType}
TransactionType == {"BUY", "RENT"}
Dates == 0..MaxDate
NaN == Null
DateStrings == {NaN} \cup {Some(d) : d \in Dates}
TransactionFilter == {"BOUGHT", "SOLD", "BORROWED", "LENT"}
NoTitle == ""

VARIABLES products, transactions, nextProductId, nextTxId, rowLock, clock,
          req, last, calls

vars == <<products, transactions, nextProductId, nextTxId, rowLock, clock,
          req, last, calls>>

\* ---------------------------------------------------------------- helpers
\* JavaScript truthiness of a nullable number: null and 0 are falsy.
Truthy(x) == x # Null /\ x[1] # 0
\* JavaScript truthiness of a nullable enum string: only null is falsy.
TruthyEnum(x) == x # Null

\* The token decoded without verification (jwt.decode): an expired token still
\* names its user.
getUserIdFromRequest_decodeOnly(caller) ==
    IF Requester(caller) \in Users THEN Some(Requester(caller)) ELSE Null

\* getUserIdFromRequest: null without the header, with an empty token, and
\* when jwt.verify throws; the userId of the token when it verifies.
getUserIdFromRequest(caller) == IF caller \in Users THEN Some(caller) ELSE Null

\* new Date(string): NaN for an unparseable string, otherwise the instant.
ParseDate(s) == IF s \in {Some(d) : d \in Dates} THEN s ELSE NaN
isNaN(d) == d = NaN

Ok == [kind |-> "Success", message |-> ""]
AuthenticationError(m) == [kind |-> "Authentication", message |-> m]
AuthorizationError(m) == [kind |-> "Authorization", message |-> m]
ValidationError(m) == [kind |-> "Validation", message |-> m]
NotFoundError(m) == [kind |-> "NotFound", message |-> m]
ConflictError(m) == [kind |-> "Conflict", message |-> m]
\* An error raised by the Prisma client itself (record to update not found).
PrismaError(m) == [kind |-> "Internal", message |-> m]
Pending == [kind |-> "Pending", message |-> ""]

NoProduct == [ownerId |-> Anonymous, title |-> NoTitle, price |-> Null,
              rentPrice |-> Null, rentType |-> Null, isSold |-> FALSE, views |-> 0,
              datePosted |-> 0]
NoInput == [given |-> {}, title |-> NoTitle, price |-> Null, rentPrice |-> Null,
            rentType |-> Null, isSold |-> FALSE, startDate |-> NaN, endDate |-> NaN]

Idle == [op |-> "none", pc |-> "idle", caller |-> Anonymous, pid |-> 1,
         input |-> NoInput, found |-> FALSE, product |-> NoProduct,
         result |-> Pending]

\* prisma.product.findUnique({ where: { id } })
findUnique(pid) == IF pid \in DOMAIN products THEN products[pid] ELSE NoProduct
Exists(pid) == pid \in DOMAIN products

\* A row written by an open transaction is locked until that transaction ends.
RowFree(pid, r) == rowLock[pid] \in {NoReq, r}

Start(r, op, caller, pid, input) ==
    [Idle EXCEPT !.op = op, !.caller = caller, !.pid = pid, !.input = input,
                 !.found = Exists(pid), !.product = findUnique(pid)]

\* The response of a request: the slot becomes free and the completed call,
\* with what it read and what it returned, is kept in last.
Respond(r, rec, result) ==
    /\ req' = [req EXCEPT ![r] = Idle]
    /\ last' = [rec EXCEPT !.pc = "done", !.result = result]

CanCall(r) == req[r].pc = "idle" /\ calls < MaxCalls

TypeOK ==
    /\ DOMAIN products \subseteq ProductIds
    /\ nextProductId \in 1..(MaxProducts + 1)
    /\ clock \in 0..MaxTime
    /\ calls \in 0..MaxCalls
    /\ last.pc \in {"idle", "done"}
    /\ \A r \in Reqs : req[r].pc \in {"idle", "update_write", "delete_delete", "view_incr",
                                     "buy_rentals", "buy_update", "buy_create",
                                     "rent_conflicts", "rent_create"}

Init ==
    /\ products = <<>>
    /\ transactions = {}
    /\ nextProductId = 1
    /\ nextTxId = 1
    /\ rowLock = [p \in ProductIds |-> NoReq]
    /\ clock = 0
    /\ req = [r \in Reqs |-> Idle]
    /\ last = Idle
    /\ calls = 0

\* ---------------------------------------------------------- createProduct
CreateInputs == [title : {"t1"}, price : OptPrices, rentPrice : OptPrices,
                 rentType : OptRentTypes]

\* The checks of createProduct before the insert; Ok when none throws.
createProductCheck(userId, input) ==
    IF userId = Null
      THEN AuthenticationError("You must be logged in to create a product")
    ELSE IF ~Truthy(input.price) /\ ~Truthy(input.rentPrice)
      THEN ValidationError("Product must have either a purchase price or rental price")
    ELSE IF Truthy(input.rentPrice) /\ ~TruthyEnum(input.rentType)
      THEN ValidationError("Rental type is required when rental price is set")
    ELSE Ok

\* The row prisma.product.create inserts.
createProductRow(userId, input) ==
    [ownerId |-> userId[1], title |-> input.title, price |-> input.price,
     rentPrice |-> input.rentPrice, rentType |-> input.rentType, isSold |-> FALSE,
     views |-> 0, datePosted |-> clock]

createProduct(r, C, I) ==
    \E caller \in C, input \in I :
      LET userId == getUserIdFromRequest(caller)
          chk == createProductCheck(userId, input)
          in  == [NoInput EXCEPT !.title = input.title, !.price = input.price,
                                 !.rentPrice = input.rentPrice,
                                 !.rentType = input.rentType]
          rec == [Idle EXCEPT !.op = "createProduct", !.caller = caller,
                              !.pid = nextProductId, !.input = in]
      IN  /\ CanCall(r)
          /\ nextProductId <= MaxProducts
          /\ calls' = calls + 1
          /\ Respond(r, rec, chk)
          /\ IF chk = Ok
               THEN /\ products' = (nextProductId :> createProductRow(userId, input)) @@ products
                    /\ nextProductId' = nextProductId + 1
               ELSE UNCHANGED <<products, nextProductId>>
          /\ UNCHANGED <<transactions, nextTxId, rowLock, clock>>

\* ---------------------------------------------------------- updateProduct
UpdateFields == {"title", "price", "rentPrice", "rentType", "isSold"}

\* An UpdateProductInput: given holds the keys that are not undefined; a key
\* that is given may carry null (price, rentPrice, rentType are nullable).
UpdateInputs ==
    {i \in [given : SUBSET UpdateFields, title : {NoTitle, "t2"}, price : OptPrices,
            rentPrice : OptPrices, rentType : OptRentTypes, isSold : BOOLEAN,
            startDate : {NaN}, endDate : {NaN}] :
        /\ "title" \in i.given <=> i.title # NoTitle
        /\ "price" \notin i.given => i.price = Null
        /\ "rentPrice" \notin i.given => i.rentPrice = Null
        /\ "rentType" \notin i.given => i.rentType = Null
        /\ "isSold" \notin i.given => i.isSold = FALSE}

\* input.f !== undefined ? input.f : product.f
finalValue(input, product, f) == IF f \in input.given THEN input[f] ELSE product[f]

\* updateProduct without its test of the owner.
updateProductCheck_noOwnerTest(userId, found, product, input) ==
    IF userId = Null
      THEN AuthenticationError("You must be logged in to update a product")
    ELSE IF ~found
      THEN NotFoundError("Product not found")
    ELSE IF /\ ~Truthy(finalValue(input, product, "price"))
            /\ ~Truthy(finalValue(input, product, "rentPrice"))
      THEN ValidationError("Product must have either a purchase price or rental price")
    ELSE IF /\ Truthy(finalValue(input, product, "rentPrice"))
            /\ ~TruthyEnum(finalValue(input, product, "rentType"))
      THEN ValidationError("Rental type is required when rental price is set")
    ELSE Ok

\* The checks of updateProduct between its findUnique and its update.
updateProductCheck(userId, found, product, input) ==
    IF userId = Null
      THEN AuthenticationError("You must be logged in to update a product")
    ELSE IF ~found
      THEN NotFoundError("Product not found")
    ELSE IF product.ownerId # userId[1]
      THEN AuthorizationError("You can only update your own products")
    ELSE IF /\ ~Truthy(finalValue(input, product, "price"))
            /\ ~Truthy(finalValue(input, product, "rentPrice"))
      THEN ValidationError("Product must have either a purchase price or rental price")
    ELSE IF /\ Truthy(finalValue(input, product, "rentPrice"))
            /\ ~TruthyEnum(finalValue(input, product, "rentType"))
      THEN ValidationError("Rental type is required when rental price is set")
    ELSE Ok

\* An update that replaces the row's editable fields by the input, a key that
\* is not given written as empty.
updateProductData_replace(row, input) ==
    [row EXCEPT !.title = input.title, !.price = input.price,
                !.rentPrice = input.rentPrice, !.rentType = input.rentType,
                !.isSold = input.isSold]

\* The row after prisma.product.update with the data object of updateProduct:
\* only the keys that are given are written.
updateProductData(row, input) ==
    [row EXCEPT !.title = finalValue(input, row, "title"),
                !.price = finalValue(input, row, "price"),
                !.rentPrice = finalValue(input, row, "rentPrice"),
                !.rentType = finalValue(input, row, "rentType"),
                !.isSold = finalValue(input, row, "isSold")]

\* updateProduct up to the end of its validation: findUnique and the checks.
updateProduct(r, C, I) ==
    \E caller \in C, pid \in ProductIds, input \in I :
      LET rec == Start(r, "updateProduct", caller, pid, input)
          chk == updateProductCheck(getUserIdFromRequest(caller), rec.found,
                                    rec.product, input)
      IN  /\ CanCall(r)
          /\ calls' = calls + 1
          /\ IF chk = Ok
               THEN /\ req' = [req EXCEPT ![r] = [rec EXCEPT !.pc = "update_write"]]
                    /\ UNCHANGED last
               ELSE Respond(r, rec, chk)
          /\ UNCHANGED <<products, transactions, nextProductId, nextTxId, rowLock, clock>>

\* prisma.product.update of updateProduct.
updateProductWrite(r) ==
    LET rec == req[r]
    IN  /\ rec.pc = "update_write"
        /\ RowFree(rec.pid, r)
        /\ IF Exists(rec.pid)
             THEN /\ products' = [products EXCEPT
                                    ![rec.pid] = updateProductData(@, rec.input)]
                  /\ Respond(r, rec, Ok)
             ELSE /\ UNCHANGED products
                  /\ Respond(r, rec, PrismaError("Record to update not found"))
        /\ UNCHANGED <<transactions, nextProductId, nextTxId, rowLock, clock, calls>>

\* ---------------------------------------------------------- deleteProduct
\* deleteProduct looking the product up before it tests the credential.
deleteProductCheck_lookupFirst(userId, found, product) ==
    IF ~found
      THEN NotFoundError("Product not found")
    ELSE IF userId = Null
      THEN AuthenticationError("You must be logged in to delete a product")
    ELSE IF product.ownerId # userId[1]
      THEN AuthorizationError("You can only delete your own products")
    ELSE Ok

\* The checks of deleteProduct between its findUnique and its delete.
deleteProductCheck(userId, found, product) ==
    IF userId = Null
      THEN AuthenticationError("You must be logged in to delete a product")
    ELSE IF ~found
      THEN NotFoundError("Product not found")
    ELSE IF product.ownerId # userId[1]
      THEN AuthorizationError("You can only delete your own products")
    ELSE Ok

\* Transaction_productId_fkey ... ON DELETE RESTRICT: the rows of the ledger
\* that keep the product from being deleted.
RestrictingRows(pid) == {t \in transactions : t.productId = pid}

\* deleteProduct up to the end of its checks: findUnique and the owner test.
deleteProduct(r, C) ==
    \E caller \in C, pid \in ProductIds :
      LET rec == Start(r, "deleteProduct", caller, pid, NoInput)
          chk == deleteProductCheck(getUserIdFromRequest(caller), rec.found, rec.product)
      IN  /\ CanCall(r)
          /\ calls' = calls + 1
          /\ IF chk = Ok
               THEN /\ req' = [req EXCEPT ![r] = [rec EXCEPT !.pc = "delete_delete"]]
                    /\ UNCHANGED last
               ELSE Respond(r, rec, chk)
          /\ UNCHANGED <<products, transactions, nextProductId, nextTxId, rowLock, clock>>

\* prisma.product.delete of deleteProduct: refused by the foreign key of the
\* ledger while a transaction references the product.
deleteProductDelete(r) ==
    LET rec == req[r]
    IN  /\ rec.pc = "delete_delete"
        /\ RowFree(rec.pid, r)
        /\ IF ~Exists(rec.pid)
             THEN /\ UNCHANGED <<products, transactions>>
                  /\ Respond(r, rec, PrismaError("Record to delete does not exist"))
           ELSE IF RestrictingRows(rec.pid) # {}
             THEN /\ UNCHANGED <<products, transactions>>
                  /\ Respond(r, rec, PrismaError("Foreign key constraint failed"))
           ELSE /\ products' = [p \in DOMAIN products \ {rec.pid} |-> products[p]]
                /\ UNCHANGED transactions
                /\ Respond(r, rec, Ok)
        /\ UNCHANGED <<nextProductId, nextTxId, rowLock, clock, calls>>

\* ---------------------------------------------------------- Query.product
\* A read that counts every viewer, the owner included.
viewerIsOwner_never(currentUserId, row) == FALSE

\* currentUserId && product.ownerId === currentUserId
viewerIsOwner(currentUserId, row) ==
    currentUserId # Null /\ row.ownerId = currentUserId[1]

\* Query.product up to its return or its update: findUnique and the owner test.
queryProduct(r, C) ==
    \E caller \in C, pid \in ProductIds :
      LET rec == Start(r, "product", caller, pid, NoInput)
          currentUserId == getUserIdFromRequest(caller)
      IN  /\ CanCall(r)
          /\ calls' = calls + 1
          /\ IF ~rec.found
               THEN Respond(r, rec, NotFoundError("Product not found"))
             ELSE IF viewerIsOwner(currentUserId, rec.product)
               THEN Respond(r, rec, Ok)
             ELSE /\ req' = [req EXCEPT ![r] = [rec EXCEPT !.pc = "view_incr"]]
                  /\ UNCHANGED last
          /\ UNCHANGED <<products, transactions, nextProductId, nextTxId, rowLock, clock>>

\* data: { views: { increment: 1 } }
incrementViews(row) == [row EXCEPT !.views = @ + 1]

\* The view counted by writing back the row that findUnique returned, with its
\* counter plus one (a read-modify-write in the resolver).
queryProductIncrement_readModifyWrite(r) ==
    LET rec == req[r]
    IN  /\ rec.pc = "view_incr"
        /\ RowFree(rec.pid, r)
        /\ IF Exists(rec.pid)
             THEN /\ products' = [products EXCEPT ![rec.pid] = incrementViews(rec.product)]
                  /\ Respond(r, [rec EXCEPT !.product = incrementViews(rec.product)], Ok)
             ELSE /\ UNCHANGED products
                  /\ Respond(r, rec, PrismaError("Record to update not found"))
        /\ UNCHANGED <<transactions, nextProductId, nextTxId, rowLock, clock, calls>>

\* prisma.product.update of Query.product.
queryProductIncrement(r) ==
    LET rec == req[r]
    IN  /\ rec.pc = "view_incr"
        /\ RowFree(rec.pid, r)
        /\ IF Exists(rec.pid)
             THEN /\ products' = [products EXCEPT ![rec.pid] = incrementViews(@)]
                  /\ Respond(r, [rec EXCEPT !.product = incrementViews(products[rec.pid])], Ok)
             ELSE /\ UNCHANGED products
                  /\ Respond(r, rec, PrismaError("Record to update not found"))
        /\ UNCHANGED <<transactions, nextProductId, nextTxId, rowLock, clock, calls>>

\* ------------------------------------------------------------- buyProduct
\* buyProduct testing the owner before the sold flag.
buyProductCheck_ownerFirst(userId, found, product) ==
    IF userId = Null
      THEN AuthenticationError("You must be logged in to buy a product")
    ELSE IF ~found
      THEN NotFoundError("Product not found")
    ELSE IF product.ownerId = userId[1]
      THEN ConflictError("Cannot buy your own product")
    ELSE IF product.isSold
      THEN ConflictError("Product is already sold")
    ELSE IF ~Truthy(product.price)
      THEN ValidationError("Product does not have a purchase price set")
    ELSE Ok

\* The checks of buyProduct between the findUnique of its transaction and its
\* query for active rentals.
buyProductCheck(userId, found, product) ==
    IF userId = Null
      THEN AuthenticationError("You must be logged in to buy a product")
    ELSE IF ~found
      THEN NotFoundError("Product not found")
    ELSE IF product.isSold
      THEN ConflictError("Product is already sold")
    ELSE IF product.ownerId = userId[1]
      THEN ConflictError("Cannot buy your own product")
    ELSE IF ~Truthy(product.price)
      THEN ValidationError("Product does not have a purchase price set")
    ELSE Ok

\* A query for the rentals that end after now (gt in place of gte).
activeRentals_gt(pid, now) ==
    {t \in transactions : /\ t.productId = pid
                          /\ t.type = "RENT"
                          /\ t.endDate # Null
                          /\ t.endDate[1] > now}

\* tx.transaction.findMany: the RENT rows of the product with endDate >= now.
activeRentals(pid, now) ==
    {t \in transactions : /\ t.productId = pid
                          /\ t.type = "RENT"
                          /\ t.endDate # Null
                          /\ t.endDate[1] >= now}

\* The row tx.transaction.create inserts for a purchase.
buyTransactionRow(id, userId, pid, product, now) ==
    [id |-> id, type |-> "BUY", userId |-> userId, productId |-> pid,
     startDate |-> Null, endDate |-> Null, createdAt |-> now,
     transactionPrice |-> IF Truthy(product.price) THEN product.price ELSE Null,
     transactionRentPrice |-> Null, transactionRentType |-> Null]

\* buyProduct up to the end of its checks: the transaction begins and reads
\* the product with a plain SELECT (READ COMMITTED, no row lock).
buyProduct(r, C) ==
    \E caller \in C, pid \in ProductIds :
      LET rec == Start(r, "buyProduct", caller, pid, NoInput)
          chk == buyProductCheck(getUserIdFromRequest(caller), rec.found, rec.product)
      IN  /\ CanCall(r)
          /\ calls' = calls + 1
          /\ IF chk = Ok
               THEN /\ req' = [req EXCEPT ![r] = [rec EXCEPT !.pc = "buy_rentals"]]
                    /\ UNCHANGED last
               ELSE Respond(r, rec, chk)
          /\ UNCHANGED <<products, transactions, nextProductId, nextTxId, rowLock, clock>>

\* now = new Date() and the findMany for active rentals.
buyProductRentals(r) ==
    LET rec == req[r]
    IN  /\ rec.pc = "buy_rentals"
        /\ IF activeRentals(rec.pid, clock) # {}
             THEN Respond(r, rec, ConflictError("Cannot buy product while it is currently rented"))
             ELSE /\ req' = [req EXCEPT ![r].pc = "buy_update"]
                  /\ UNCHANGED last
        /\ UNCHANGED <<products, transactions, nextProductId, nextTxId, rowLock, clock, calls>>

\* tx.product.update({ data: { isSold: true } }): waits for the row lock of
\* another open transaction, then holds the lock; the write is not visible to
\* other requests before the commit.
buyProductUpdate(r) ==
    LET rec == req[r]
    IN  /\ rec.pc = "buy_update"
        /\ RowFree(rec.pid, r)
        /\ IF Exists(rec.pid)
             THEN /\ rowLock' = [rowLock EXCEPT ![rec.pid] = r]
                  /\ req' = [req EXCEPT ![r].pc = "buy_create"]
                  /\ UNCHANGED last
             ELSE /\ UNCHANGED rowLock
                  /\ Respond(r, rec, PrismaError("Record to update not found"))
        /\ UNCHANGED <<products, transactions, nextProductId, nextTxId, clock, calls>>

\* A sale that hands the product over: the commit also makes the buyer the
\* owner of the row.
buyProductCommit_transfersOwner(r) ==
    LET rec == req[r]
    IN  /\ rec.pc = "buy_create"
        /\ products' = [products EXCEPT ![rec.pid].isSold = TRUE,
                                        ![rec.pid].ownerId = rec.caller]
        /\ transactions' = transactions \cup
               {buyTransactionRow(nextTxId, rec.caller, rec.pid, rec.product, clock)}
        /\ nextTxId' = nextTxId + 1
        /\ rowLock' = [rowLock EXCEPT ![rec.pid] = NoReq]
        /\ Respond(r, rec, Ok)
        /\ UNCHANGED <<nextProductId, clock, calls>>

\* tx.transaction.create and the commit of the transaction.
buyProductCommit(r) ==
    LET rec == req[r]
    IN  /\ rec.pc = "buy_create"
        /\ products' = [products EXCEPT ![rec.pid].isSold = TRUE]
        /\ transactions' = transactions \cup
               {buyTransactionRow(nextTxId, rec.caller, rec.pid, rec.product, clock)}
        /\ nextTxId' = nextTxId + 1
        /\ rowLock' = [rowLock EXCEPT ![rec.pid] = NoReq]
        /\ Respond(r, rec, Ok)
        /\ UNCHANGED <<nextProductId, clock, calls>>

\* An abort that keeps the update of the product (the two writes of buyProduct
\* outside a transaction).
buyProductAbort_keepsUpdate(r) ==
    LET rec == req[r]
    IN  /\ rec.pc = "buy_create"
        /\ products' = [products EXCEPT ![rec.pid].isSold = TRUE]
        /\ rowLock' = [rowLock EXCEPT ![rec.pid] = NoReq]
        /\ Respond(r, rec, PrismaError("Transaction failed"))
        /\ UNCHANGED <<transactions, nextProductId, nextTxId, clock, calls>>

\* tx.transaction.create fails, or the transaction is closed before it runs:
\* prisma.$transaction rolls the update of the product back and rethrows.
buyProductAbort(r) ==
    LET rec == req[r]
    IN  /\ rec.pc = "buy_create"
        /\ rowLock' = [rowLock EXCEPT ![rec.pid] = NoReq]
        /\ Respond(r, rec, PrismaError("Transaction failed"))
        /\ UNCHANGED <<products, transactions, nextProductId, nextTxId, clock, calls>>

\* ------------------------------------------------------------ rentProduct
RentInputs == [startDate : DateStrings, endDate : DateStrings]

\* rentProduct without its test of the owner.
rentProductCheck_noOwnerTest(userId, found, product, input, now) ==
    LET startDate == ParseDate(input.startDate)
        endDate == ParseDate(input.endDate)
    IN  IF userId = Null
          THEN AuthenticationError("You must be logged in to rent a product")
        ELSE IF ~found
          THEN NotFoundError("Product not found")
        ELSE IF product.isSold
          THEN ConflictError("Cannot rent a product that is already sold")
        ELSE IF ~Truthy(product.rentPrice) \/ ~TruthyEnum(product.rentType)
          THEN ValidationError("Product does not have rental options configured")
        ELSE IF isNaN(startDate) \/ isNaN(endDate)
          THEN ValidationError("Invalid date format")
        ELSE IF endDate[1] <= startDate[1]
          THEN ValidationError("End date must be after start date")
        ELSE IF startDate[1] < now
          THEN ValidationError("Start date cannot be in the past")
        ELSE Ok

\* rentProduct accepting a stay that ends when it starts (< in place of <=).
rentProductCheck_emptyStay(userId, found, product, input, now) ==
    LET startDate == ParseDate(input.startDate)
        endDate == ParseDate(input.endDate)
    IN  IF userId = Null
          THEN AuthenticationError("You must be logged in to rent a product")
        ELSE IF ~found
          THEN NotFoundError("Product not found")
        ELSE IF product.isSold
          THEN ConflictError("Cannot rent a product that is already sold")
        ELSE IF product.ownerId = userId[1]
          THEN ConflictError("Cannot rent your own product")
        ELSE IF ~Truthy(product.rentPrice) \/ ~TruthyEnum(product.rentType)
          THEN ValidationError("Product does not have rental options configured")
        ELSE IF isNaN(startDate) \/ isNaN(endDate)
          THEN ValidationError("Invalid date format")
        ELSE IF endDate[1] < startDate[1]
          THEN ValidationError("End date must be after start date")
        ELSE IF startDate[1] < now
          THEN ValidationError("Start date cannot be in the past")
        ELSE Ok

\* rentProduct validating the dates before the rental options of the product.
rentProductCheck_datesFirst(userId, found, product, input, now) ==
    LET startDate == ParseDate(input.startDate)
        endDate == ParseDate(input.endDate)
    IN  IF userId = Null
          THEN AuthenticationError("You must be logged in to rent a product")
        ELSE IF ~found
          THEN NotFoundError("Product not found")
        ELSE IF product.isSold
          THEN ConflictError("Cannot rent a product that is already sold")
        ELSE IF product.ownerId = userId[1]
          THEN ConflictError("Cannot rent your own product")
        ELSE IF isNaN(startDate) \/ isNaN(endDate)
          THEN ValidationError("Invalid date format")
        ELSE IF endDate[1] <= startDate[1]
          THEN ValidationError("End date must be after start date")
        ELSE IF startDate[1] < now
          THEN ValidationError("Start date cannot be in the past")
        ELSE IF ~Truthy(product.rentPrice) \/ ~TruthyEnum(product.rentType)
          THEN ValidationError("Product does not have rental options configured")
        ELSE Ok

\* The checks of rentProduct between its findUnique and its conflict query.
rentProductCheck(userId, found, product, input, now) ==
    LET startDate == ParseDate(input.startDate)
        endDate == ParseDate(input.endDate)
    IN  IF userId = Null
          THEN AuthenticationError("You must be logged in to rent a product")
        ELSE IF ~found
          THEN NotFoundError("Product not found")
        ELSE IF product.isSold
          THEN ConflictError("Cannot rent a product that is already sold")
        ELSE IF product.ownerId = userId[1]
          THEN ConflictError("Cannot rent your own product")
        ELSE IF ~Truthy(product.rentPrice) \/ ~TruthyEnum(product.rentType)
          THEN ValidationError("Product does not have rental options configured")
        ELSE IF isNaN(startDate) \/ isNaN(endDate)
          THEN ValidationError("Invalid date format")
        ELSE IF endDate[1] <= startDate[1]
          THEN ValidationError("End date must be after start date")
        ELSE IF startDate[1] < now
          THEN ValidationError("Start date cannot be in the past")
        ELSE Ok

\* The conflict query without its third clause (a rental inside the stay).
rentClauses_noEnclosed(t, startDate, endDate) ==
    \/ t.startDate[1] <= startDate /\ t.endDate[1] >= startDate
    \/ t.startDate[1] <= endDate /\ t.endDate[1] >= endDate

\* The OR of the three clauses of the conflict query, for one RENT row t.
rentClauses(t, startDate, endDate) ==
    \/ t.startDate[1] <= startDate /\ t.endDate[1] >= startDate
    \/ t.startDate[1] <= endDate /\ t.endDate[1] >= endDate
    \/ t.startDate[1] >= startDate /\ t.endDate[1] <= endDate

\* A conflict query that compares no dates: every rental of the product,
\* the ended ones too, counts.
conflictingRentals_anyRental(pid, startDate, endDate) ==
    {t \in transactions : /\ t.productId = pid
                          /\ t.type = "RENT"
                          /\ t.startDate # Null /\ t.endDate # Null}

\* prisma.transaction.findMany of rentProduct.
conflictingRentals(pid, startDate, endDate) ==
    {t \in transactions : /\ t.productId = pid
                          /\ t.type = "RENT"
                          /\ t.startDate # Null /\ t.endDate # Null
                          /\ rentClauses(t, startDate, endDate)}

\* A rental recorded with the type of a purchase.
rentTransactionRow_asBuy(id, userId, pid, product, startDate, endDate, now) ==
    [id |-> id, type |-> "BUY", userId |-> userId, productId |-> pid,
     startDate |-> startDate, endDate |-> endDate, createdAt |-> now,
     transactionPrice |-> Null,
     transactionRentPrice |-> IF Truthy(product.rentPrice) THEN product.rentPrice ELSE Null,
     transactionRentType |-> IF TruthyEnum(product.rentType) THEN product.rentType ELSE Null]

\* The row prisma.transaction.create inserts for a rental.
rentTransactionRow(id, userId, pid, product, startDate, endDate, now) ==
    [id |-> id, type |-> "RENT", userId |-> userId, productId |-> pid,
     startDate |-> startDate, endDate |-> endDate, createdAt |-> now,
     transactionPrice |-> Null,
     transactionRentPrice |-> IF Truthy(product.rentPrice) THEN product.rentPrice ELSE Null,
     transactionRentType |-> IF TruthyEnum(product.rentType) THEN product.rentType ELSE Null]

\* rentProduct up to the end of its validation: findUnique and the checks.
rentProduct(r, C, I) ==
    \E caller \in C, pid \in ProductIds, in \in I :
      LET input == [NoInput EXCEPT !.startDate = in.startDate, !.endDate = in.endDate]
          rec == Start(r, "rentProduct", caller, pid, input)
          chk == rentProductCheck(getUserIdFromRequest(caller), rec.found,
                                  rec.product, input, clock)
      IN  /\ CanCall(r)
          /\ calls' = calls + 1
          /\ IF chk = Ok
               THEN /\ req' = [req EXCEPT ![r] = [rec EXCEPT !.pc = "rent_conflicts"]]
                    /\ UNCHANGED last
               ELSE Respond(r, rec, chk)
          /\ UNCHANGED <<products, transactions, nextProductId, nextTxId, rowLock, clock>>

\* The conflict query and the test of its result.
rentProductConflicts(r) ==
    LET rec == req[r]
    IN  /\ rec.pc = "rent_conflicts"
        /\ IF conflictingRentals(rec.pid, ParseDate(rec.input.startDate)[1],
                                 ParseDate(rec.input.endDate)[1]) # {}
             THEN Respond(r, rec, ConflictError("Product is already rented during this period"))
             ELSE /\ req' = [req EXCEPT ![r].pc = "rent_create"]
                  /\ UNCHANGED last
        /\ UNCHANGED <<products, transactions, nextProductId, nextTxId, rowLock, clock, calls>>

\* prisma.transaction.create of rentProduct.
rentProductCreate(r) ==
    LET rec == req[r]
    IN  /\ rec.pc = "rent_create"
        /\ IF Exists(rec.pid)
             THEN /\ transactions' = transactions \cup
                        {rentTransactionRow(nextTxId, rec.caller, rec.pid, rec.product,
                                            ParseDate(rec.input.startDate),
                                            ParseDate(rec.input.endDate), clock)}
                  /\ nextTxId' = nextTxId + 1
                  /\ Respond(r, rec, Ok)
             ELSE /\ UNCHANGED <<transactions, nextTxId>>
                  /\ Respond(r, rec, PrismaError("Foreign key constraint failed"))
        /\ UNCHANGED <<products, nextProductId, rowLock, clock, calls>>

\* ------------------------------------------------ Query.myProducts, allProducts
\* A query for the unsold products of every owner.
myProducts_anyOwner(userId) == {p \in DOMAIN products : ~products[p].isSold}

\* Query.myProducts of queries.ts for an authenticated user:
\* where { ownerId: userId, isSold: false } (as the set of product ids).
myProducts(userId) ==
    {p \in DOMAIN products : products[p].ownerId = userId /\ ~products[p].isSold}

\* Query.myProducts of resolvers.ts: where { ownerId: userId }.
legacyMyProducts(userId) == {p \in DOMAIN products : products[p].ownerId = userId}

\* Query.allProducts of queries.ts: where { isSold: false } and, for a caller
\* with a user id, ownerId: { not: userId }.
allProducts(caller) ==
    LET userId == getUserIdFromRequest(caller)
    IN  {p \in DOMAIN products :
           /\ ~products[p].isSold
           /\ IF userId # Null THEN products[p].ownerId # userId[1] ELSE TRUE}

\* Query.allProducts of resolvers.ts: ownerId: { not: userId || undefined },
\* where a not of undefined is no condition.
legacyAllProducts(caller) ==
    LET userId == getUserIdFromRequest(caller)
        not == IF userId # Null THEN userId ELSE Null
    IN  {p \in DOMAIN products :
           /\ ~products[p].isSold
           /\ not # Null => products[p].ownerId # not[1]}

\* ------------------------------------------------- Query.myTransactionHistory
\* A filter map whose SOLD clause forgets the transaction type.
filterMap_soldAnyType(filter, userId, t) ==
    CASE filter = "BOUGHT" -> t.userId = userId /\ t.type = "BUY"
      [] filter = "SOLD" -> /\ t.productId \in DOMAIN products
                            /\ products[t.productId].ownerId = userId
      [] filter = "BORROWED" -> t.userId = userId /\ t.type = "RENT"
      [] filter = "LENT" -> /\ t.productId \in DOMAIN products
                            /\ products[t.productId].ownerId = userId
                            /\ t.type = "RENT"
      [] OTHER -> FALSE

\* The where clause filterMap[filter] for userId, applied to one row.
filterMap(filter, userId, t) ==
    CASE filter = "BOUGHT" -> t.userId = userId /\ t.type = "BUY"
      [] filter = "SOLD" -> /\ t.productId \in DOMAIN products
                            /\ products[t.productId].ownerId = userId
                            /\ t.type = "BUY"
      [] filter = "BORROWED" -> t.userId = userId /\ t.type = "RENT"
      [] filter = "LENT" -> /\ t.productId \in DOMAIN products
                            /\ products[t.productId].ownerId = userId
                            /\ t.type = "RENT"
      [] OTHER -> FALSE

\* The rows myTransactionHistory returns to userId (as a set).
myTransactionHistory(userId, filter) ==
    {t \in transactions : filterMap(filter, userId, t)}

\* The filter argument is any string: the four keys of filterMap, a string
\* that names nothing, and strings that name what every object inherits.
FilterStrings == TransactionFilter \cup {"PURCHASED", "constructor", "toString", "__proto__"}

\* filterMap[filter] for an object literal with the four keys: the clause of
\* a key, the function or the prototype object inherited from Object.prototype,
\* or undefined.
filterMapLookup(filter) ==
    CASE filter \in TransactionFilter -> "clause"
      [] filter \in {"constructor", "toString"} -> "function"
      [] filter = "__proto__" -> "prototype"
      [] OTHER -> "undefined"

Rows(rows) == [kind |-> "Success", rows |-> rows]
Thrown(error) == [kind |-> error.kind, rows |-> {}]

\* The responses Query.myTransactionHistory can give: the rows of a clause,
\* the empty list for undefined; a where that is a function or the prototype
\* object is truthy and goes to findMany, which rejects it or finds in it no
\* condition at all, and the rejection of the returned promise is not caught
\* by the try block that returns it.
myTransactionHistoryResponses(caller, filter) ==
    LET userId == getUserIdFromRequest(caller)
        where == filterMapLookup(filter)
    IN  IF userId = Null
          THEN {Thrown(AuthenticationError("You must be logged in to view transaction history"))}
        ELSE IF where = "undefined"
          THEN {Rows({})}
        ELSE IF where = "clause"
          THEN {Rows(myTransactionHistory(userId[1], filter))}
        ELSE {Thrown(PrismaError("Invalid prisma.transaction.findMany() invocation")),
              Rows(transactions)}

\* What Query.myProducts of queries.ts answers to a caller: the error for a
\* request without a user id, otherwise the rows.
myProductsResponse(caller) ==
    LET userId == getUserIdFromRequest(caller)
    IN  IF userId = Null
          THEN Thrown(AuthenticationError("You must be logged in to view your products"))
          ELSE Rows(myProducts(userId[1]))

\* ------------------------------------------------------- field resolvers
\* Transaction.transactionPrice: parent.transactionPrice ?? null
transactionPrice(parent) == parent.transactionPrice

\* A resolver that shows the live rental price of the product.
transactionRentPrice_live(parent) == products[parent.productId].rentPrice

\* Transaction.transactionRentPrice: parent.transactionRentPrice ?? null
transactionRentPrice(parent) == parent.transactionRentPrice

\* Transaction.transactionRentType: parent.transactionRentType ?? null
transactionRentType(parent) == parent.transactionRentType

\* ------------------------------------------- the resolvers of resolvers.ts
\* throw new Error(message)
Error(m) == [kind |-> "Error", message |-> m]

\* Mutation.updateProduct of resolvers.ts up to its update.
legacyUpdateProductCheck(userId, found, product) ==
    IF userId = Null THEN Error("Unauthorized")
    ELSE IF ~found \/ product.ownerId # userId[1] THEN Error("Forbidden")
    ELSE Ok

\* Mutation.deleteProduct of resolvers.ts up to its delete.
legacyDeleteProductCheck(userId, found, product) ==
    IF userId = Null THEN Error("Unauthorized")
    ELSE IF ~found \/ product.ownerId # userId[1] THEN Error("Forbidden")
    ELSE Ok

Tick ==
    /\ clock < MaxTime
    /\ clock' = clock + 1
    /\ UNCHANGED <<products, transactions, nextProductId, nextTxId, rowLock, req, last, calls>>

\* ---------------------------------------------------------- specifications
\* Every operation, from the empty store, called by an owner-to-be (alice), by
\* another user (bob) and anonymously, with a small choice of listings, edits
\* and stays.
SpecCallers == {"alice", "bob", Anonymous}
Listings == {i \in CreateInputs : i.rentType # Some("PER_HOUR")}
Edits == {i \in UpdateInputs : Cardinality(i.given) <= 1 /\ "title" \notin i.given}
Stays == [startDate : {NaN, Some(0), Some(2)}, endDate : {Some(1), Some(3)}]

Next ==
    \/ \E r \in Reqs : createProduct(r, SpecCallers, Listings)
    \/ \E r \in Reqs : updateProduct(r, SpecCallers, Edits)
    \/ \E r \in Reqs : updateProductWrite(r)
    \/ \E r \in Reqs : deleteProduct(r, SpecCallers)
    \/ \E r \in Reqs : deleteProductDelete(r)
    \/ \E r \in Reqs : queryProduct(r, SpecCallers)
    \/ \E r \in Reqs : queryProductIncrement(r)
    \/ \E r \in Reqs : buyProduct(r, SpecCallers)
    \/ \E r \in Reqs : buyProductRentals(r)
    \/ \E r \in Reqs : buyProductUpdate(r)
    \/ \E r \in Reqs : buyProductCommit(r)
    \/ \E r \in Reqs : rentProduct(r, SpecCallers, Stays)
    \/ \E r \in Reqs : rentProductConflicts(r)
    \/ \E r \in Reqs : rentProductCreate(r)
    \/ Tick

Spec == Init /\ [][Next]_vars

\* The transaction engine alone: buyProduct and rentProduct on a product that
\* alice listed for sale and for rent.
Listed == [ownerId |-> "alice", title |-> "t1", price |-> Some(1),
           rentPrice |-> Some(1), rentType |-> Some("PER_DAY"), isSold |-> FALSE,
           views |-> 0, datePosted |-> 0]

EngineStays == [startDate : {NaN} \cup {Some(d) : d \in 0..(MaxDate - 1)},
                endDate : {Some(d) : d \in 1..MaxDate}]

InitEngine ==
    /\ products = (1 :> Listed)
    /\ transactions = {}
    /\ nextProductId = 2
    /\ nextTxId = 1
    /\ rowLock = [p \in ProductIds |-> NoReq]
    /\ clock = 0
    /\ req = [r \in Reqs |-> Idle]
    /\ last = Idle
    /\ calls = 0

NextEngine ==
    \/ \E r \in Reqs : buyProduct(r, Users)
    \/ \E r \in Reqs : buyProductRentals(r)
    \/ \E r \in Reqs : buyProductUpdate(r)
    \/ \E r \in Reqs : buyProductCommit(r)
    \/ \E r \in Reqs : rentProduct(r, Users, EngineStays)
    \/ \E r \in Reqs : rentProductConflicts(r)
    \/ \E r \in Reqs : rentProductCreate(r)
    \/ Tick

SpecEngine == InitEngine /\ [][NextEngine]_vars

\* The transaction engine over a store whose statements may fail: as
\* SpecEngine, and the transaction of buyProduct may abort before its commit.
NextAbort ==
    \/ \E r \in Reqs : buyProduct(r, Users)
    \/ \E r \in Reqs : buyProductRentals(r)
    \/ \E r \in Reqs : buyProductUpdate(r)
    \/ \E r \in Reqs : buyProductCommit(r)
    \/ \E r \in Reqs : buyProductAbort(r)
    \/ \E r \in Reqs : rentProduct(r, Users, EngineStays)
    \/ \E r \in Reqs : rentProductConflicts(r)
    \/ \E r \in Reqs : rentProductCreate(r)
    \/ Tick

SpecAbort == InitEngine /\ [][NextAbort]_vars

\* The catalog alone: createProduct, updateProduct and the product read, from
\* the empty store; alice lists, and alice, bob and anonymous callers edit and
\* read.
CatalogCallers == {"alice", "bob", Anonymous}
PricingInputs == {i \in UpdateInputs : i.given \cap {"isSold", "title"} = {}}

NextCatalog ==
    \/ \E r \in Reqs : createProduct(r, {"alice", Anonymous}, CreateInputs)
    \/ \E r \in Reqs : updateProduct(r, CatalogCallers, PricingInputs)
    \/ \E r \in Reqs : updateProductWrite(r)
    \/ \E r \in Reqs : queryProduct(r, CatalogCallers)
    \/ \E r \in Reqs : queryProductIncrement(r)

SpecCatalog == Init /\ [][NextCatalog]_vars

\* The edits of one listing: updateProduct with one key, or the title and one
\* other key, called by the owner and by another user on the product alice
\* listed, while bob reads it and time passes.
EditInputs ==
    {i \in UpdateInputs : \/ Cardinality(i.given) <= 1
                          \/ Cardinality(i.given) = 2 /\ "title" \in i.given}

NextEdit ==
    \/ \E r \in Reqs : updateProduct(r, {"alice", "bob"}, EditInputs)
    \/ \E r \in Reqs : updateProductWrite(r)
    \/ \E r \in Reqs : queryProduct(r, {"bob"})
    \/ \E r \in Reqs : queryProductIncrement(r)
    \/ Tick

SpecEdit == InitEngine /\ [][NextEdit]_vars

\* Requests that carry no usable credential, against the listings of alice:
\* alice creates, edits and reads with her valid token; every operation is
\* also called without the header and with the tokens that do not verify.
AuthCallers == {"alice"} \cup Unidentified

NextAuth ==
    \/ \E r \in Reqs : createProduct(r, AuthCallers, Listings)
    \/ \E r \in Reqs : updateProduct(r, AuthCallers, Edits)
    \/ \E r \in Reqs : updateProductWrite(r)
    \/ \E r \in Reqs : deleteProduct(r, Unidentified)
    \/ \E r \in Reqs : buyProduct(r, Unidentified)
    \/ \E r \in Reqs : rentProduct(r, Unidentified, Stays)
    \/ \E r \in Reqs : queryProduct(r, AuthCallers)
    \/ \E r \in Reqs : queryProductIncrement(r)

SpecAuth == Init /\ [][NextAuth]_vars

\* ------------------------------------------------------------------ claims
\* The step just taken was a call that responded within its first statement.
RespondedAtOnce == calls' = calls + 1 /\ req' = req
\* The step just taken was the last statement of the call in slot r.
RespondedLater(r, pc) == req[r].pc = pc /\ req'[r].pc = "idle"

BuysOf(pid) == {t \in transactions : t.type = "BUY" /\ t.productId = pid}

\* C1: of the buyProduct calls that distinct users who do not own the product
\* make on it, at most one returns success (when a call has returned success,
\* the ledger holds no sale of the product to another user), and a call that
\* fails once the product has been bought fails with a Conflict error.
C1_AtMostOneBuySucceeds ==
    last.op = "buyProduct" /\ last.caller \in Users /\ last.found
      /\ last.caller # last.product.ownerId =>
        /\ last.result = Ok => \A t \in BuysOf(last.pid) : t.userId = last.caller
        /\ last.result # Ok /\ BuysOf(last.pid) # {} => last.result.kind = "Conflict"

\* C2: no two RENT transactions on the same product have intersecting closed
\* intervals [startDate, endDate].
C2_RentalsDoNotOverlap ==
    \A t1 \in transactions, t2 \in transactions :
      t1.type = "RENT" /\ t2.type = "RENT" /\ t1.id # t2.id
        /\ t1.productId = t2.productId =>
          ~(t1.startDate[1] <= t2.endDate[1] /\ t1.endDate[1] >= t2.startDate[1])

\* C3: once a product's isSold is true it is true in every later state.
C3_SoldStaysSold ==
    [][\A p \in DOMAIN products :
         products[p].isSold /\ p \in DOMAIN products' => products'[p].isSold]_vars

\* C4: every product has a purchase price or a rental price (not null).
C4_PricePresent ==
    \A p \in DOMAIN products :
      products[p].price # Null \/ products[p].rentPrice # Null

\* C5: every product with a rental price (not null) has a rentType (not null).
C5_RentTypePresent ==
    \A p \in DOMAIN products :
      products[p].rentPrice # Null => products[p].rentType # Null

\* The fields of row overlaid with the fields the input supplies.
Merged(row, input) == updateProductData(row, input)
BreaksPricing(row) ==
    \/ row.price = Null /\ row.rentPrice = Null
    \/ row.rentPrice # Null /\ row.rentType = Null

\* C6: an updateProduct by the owner whose merged result has neither price nor
\* rentPrice, or rentPrice without rentType, fails with a Validation error and
\* leaves the products unchanged.
C6_BadUpdateRejected ==
    [][/\ RespondedAtOnce /\ last'.op = "updateProduct" /\ last'.found
            /\ last'.caller = last'.product.ownerId
            /\ BreaksPricing(Merged(last'.product, last'.input))
          => last'.result.kind = "Validation" /\ products' = products
       /\ \A r \in Reqs :
            RespondedLater(r, "update_write") /\ req[r].pid \in DOMAIN products
              /\ BreaksPricing(Merged(products[req[r].pid], req[r].input))
            => last'.result.kind = "Validation" /\ products' = products]_vars

\* What the Transaction type shows of the frozen snapshot of a row.
Snapshot(t) == <<transactionPrice(t), transactionRentPrice(t), transactionRentType(t)>>

\* C7: the frozen snapshot of every transaction (transactionPrice,
\* transactionRentPrice, transactionRentType) is the same after every step as
\* before it, whatever the step does to the product.
C7_SnapshotFrozen ==
    [][\A t \in transactions : \A u \in transactions' :
         u.id = t.id => Snapshot(u)' = Snapshot(t)]_vars

\* A rental whose snapshot differs from the live rental price of its product.
C7_Witness ==
    \E t \in transactions :
      /\ t.type = "RENT" /\ t.productId \in DOMAIN products
      /\ t.transactionRentPrice # Null
      /\ products[t.productId].rentPrice # t.transactionRentPrice

\* C8: buyProduct and rentProduct called by the owner of an existing product
\* fail with a Conflict error, and no transaction has the owner of its product
\* as its acting user.
C8_NoSelfDealing ==
    /\ last.op \in {"buyProduct", "rentProduct"} /\ last.found
         /\ last.caller = last.product.ownerId => last.result.kind = "Conflict"
    /\ \A t \in transactions :
         t.productId \in DOMAIN products => t.userId # products[t.productId].ownerId

\* The owner's rentProduct was refused while the ledger holds transactions.
C8_Witness ==
    /\ last.op = "rentProduct" /\ last.found /\ last.caller = last.product.ownerId
    /\ last.result = ConflictError("Cannot rent your own product")
    /\ transactions # {}

\* C9: the product read by the owner leaves the products as they are; the read
\* by anybody else, anonymous callers included, never returns without its
\* update, and that update adds exactly 1 to the view counter.
C9_ViewCounter ==
    [][/\ RespondedAtOnce /\ last'.op = "product" /\ last'.found =>
            /\ last'.caller = last'.product.ownerId
            /\ last'.result = Ok
            /\ products' = products
       /\ \A r \in Reqs :
            RespondedLater(r, "view_incr") /\ req[r].pid \in DOMAIN products =>
              /\ req[r].caller # req[r].product.ownerId
              /\ last'.result = Ok
              /\ products' = [products EXCEPT ![req[r].pid].views = @ + 1]]_vars

\* The owner has just read a product that somebody else has viewed once.
C9_Witness ==
    /\ last.op = "product" /\ last.found /\ last.caller = last.product.ownerId
    /\ last.result = Ok
    /\ products[last.pid].views = 1

History(u) == [f \in TransactionFilter |-> myTransactionHistory(u, f)]

\* C10: for every user the BOUGHT, SOLD, BORROWED and LENT histories are
\* pairwise disjoint and their union is the set of transactions whose acting
\* user is that user or whose product is owned by that user.
C10_HistoryPartition ==
    \A u \in Users :
      /\ \A f \in TransactionFilter, g \in TransactionFilter :
           f # g => History(u)[f] \cap History(u)[g] = {}
      /\ UNION {History(u)[f] : f \in TransactionFilter} =
           {t \in transactions :
              \/ t.userId = u
              \/ t.productId \in DOMAIN products /\ products[t.productId].ownerId = u}

\* alice has sold and lent her product: a purchase and a rental are in the
\* ledger, in bob's or carol's BOUGHT and BORROWED histories.
C10_Witness ==
    /\ History("alice")["SOLD"] # {}
    /\ History("alice")["LENT"] # {}
    /\ \E u \in Users : History(u)["BOUGHT"] # {}
    /\ \E u \in Users : History(u)["BORROWED"] # {}

\* C11: a product's isSold is true if and only if the ledger holds a BUY
\* transaction for it, in every state, those after a buy that failed part-way
\* included: isSold and the BUY row are written together or not at all, and
\* nothing else sets the flag.
C11_SoldIffBought ==
    \A p \in DOMAIN products : products[p].isSold <=> BuysOf(p) # {}

\* C15: the delete statement of deleteProduct, which only the owner reaches,
\* succeeds on a product that is there whatever the ledger holds for it, and
\* leaves neither the product nor a transaction that references it.
C15_DeleteCascades ==
    [][\A r \in Reqs :
         RespondedLater(r, "delete_delete") /\ req[r].pid \in DOMAIN products =>
           /\ last'.result = Ok
           /\ req[r].pid \notin DOMAIN products'
           /\ \A t \in transactions' : t.productId # req[r].pid]_vars

RentsOf(pid) == {t \in transactions : t.type = "RENT" /\ t.productId = pid}

\* C12: buyProduct and rentProduct on one product exclude each other: no RENT
\* transaction is appended for a product that is sold, and a product that is
\* sold has no RENT transaction that ends at or after the time of its BUY.
C12_BuyExcludesRent ==
    [][/\ \A t \in transactions' \ transactions :
            t.type = "RENT" => ~products[t.productId].isSold
       /\ \A p \in DOMAIN products' :
            products'[p].isSold =>
              \A b \in BuysOf(p)', t \in RentsOf(p)' : t.endDate[1] < b.createdAt]_vars

\* C13: a buyProduct by a non-owner on an unsold product with a purchase price
\* (a call that has passed its checks of the product) fails with a Conflict
\* error and changes neither the products nor the ledger when, as it queries
\* the ledger, a RENT transaction of the product has endDate >= now; when every
\* RENT transaction of the product has endDate < now it goes on to its writes
\* and succeeds, the product sold and its BUY row appended.
C13_ActiveRentalBlocksSale ==
    [][\A r \in Reqs :
         /\ req[r].pc = "buy_rentals" /\ req'[r] # req[r] =>
              IF \E t \in RentsOf(req[r].pid) : t.endDate[1] >= clock
                THEN /\ req'[r].pc = "idle"
                     /\ last'.result.kind = "Conflict"
                     /\ products' = products /\ transactions' = transactions
                ELSE req'[r].pc = "buy_update"
         /\ RespondedLater(r, "buy_update") \/ RespondedLater(r, "buy_create") =>
              /\ last'.result = Ok
              /\ products'[req[r].pid].isSold
              /\ \E b \in transactions' \ transactions :
                   b.type = "BUY" /\ b.productId = req[r].pid /\ b.userId = req[r].caller]_vars

\* A purchase was refused for a rental that ends at this very instant, and the
\* product is still unsold.
C13_Witness ==
    /\ last.op = "buyProduct"
    /\ last.result = ConflictError("Cannot buy product while it is currently rented")
    /\ \E t \in RentsOf(last.pid) : t.endDate[1] = clock
    /\ \A t \in RentsOf(last.pid) : t.endDate[1] <= clock
    /\ ~products[last.pid].isSold /\ BuysOf(last.pid) = {}

\* A purchase succeeded although the ledger holds a rental, which had ended.
C13_SoldAfterRental ==
    /\ last.op = "buyProduct" /\ last.result = Ok
    /\ RentsOf(last.pid) # {}
    /\ \A t \in RentsOf(last.pid), b \in BuysOf(last.pid) : t.endDate[1] < b.createdAt

\* The stay an input asks for is unparseable, ends no later than it starts, or
\* starts before now.
BadStay(input, now) ==
    \/ input.startDate \notin {Some(d) : d \in Dates}
    \/ input.endDate \notin {Some(d) : d \in Dates}
    \/ input.endDate[1] <= input.startDate[1]
    \/ input.startDate[1] < now

\* C14: a rentProduct whose startDate or endDate is unparseable, whose endDate
\* is not after its startDate, or whose startDate is before now fails and
\* appends nothing, with a Validation error when the caller may rent the
\* product; a call that passes has a good stay, the RENT row it appends later
\* carries that stay, and every RENT row ends strictly after it starts.
C14_StayValidated ==
    [][/\ RespondedAtOnce /\ last'.op = "rentProduct" =>
            /\ last'.result # Ok /\ transactions' = transactions
            /\ BadStay(last'.input, clock)
                 /\ last'.caller \in Users /\ last'.found /\ ~last'.product.isSold
                 /\ last'.caller # last'.product.ownerId
                 /\ Truthy(last'.product.rentPrice)
                 /\ TruthyEnum(last'.product.rentType)
               => last'.result.kind = "Validation"
       /\ \A r \in Reqs :
            /\ req[r].pc = "idle" /\ req'[r].pc = "rent_conflicts" =>
                 ~BadStay(req'[r].input, clock)
            /\ RespondedLater(r, "rent_create") =>
                 \A t \in transactions' \ transactions :
                   /\ t.type = "RENT"
                   /\ t.startDate = req[r].input.startDate
                   /\ t.endDate = req[r].input.endDate
       /\ \A t \in transactions' :
            t.type = "RENT" => /\ t.startDate # Null /\ t.endDate # Null
                               /\ t.endDate[1] > t.startDate[1]]_vars

\* A rental is in the ledger and the last rentProduct was refused for a stay
\* that ends when it starts.
C14_Witness ==
    /\ last.op = "rentProduct"
    /\ last.result = ValidationError("End date must be after start date")
    /\ last.input.endDate = last.input.startDate
    /\ RentsOf(last.pid) # {}

\* What updateProduct edits of a product.
Listing(row) == <<row.ownerId, row.price, row.rentPrice, row.rentType>>

\* C16: updateProduct and deleteProduct by an authenticated caller fail with
\* NotFound when the product is absent and with Authorization when the caller
\* is not its owner, and then the store is unchanged; a step that edits a
\* product's listing or removes the product is the write of an updateProduct or
\* deleteProduct call made by the product's owner.
C16_OwnerOnly ==
    [][/\ RespondedAtOnce /\ last'.op \in {"updateProduct", "deleteProduct"}
            /\ last'.caller \in Users =>
              /\ ~last'.found => /\ last'.result.kind = "NotFound"
                                 /\ products' = products /\ transactions' = transactions
              /\ last'.found /\ last'.product.ownerId # last'.caller =>
                   /\ last'.result.kind = "Authorization"
                   /\ products' = products /\ transactions' = transactions
       /\ \A p \in DOMAIN products :
            p \notin DOMAIN products' \/ Listing(products'[p]) # Listing(products[p]) =>
              \E r \in Reqs :
                /\ RespondedLater(r, IF p \in DOMAIN products'
                                       THEN "update_write" ELSE "delete_delete")
                /\ req[r].pid = p
                /\ req[r].caller = products[p].ownerId]_vars

\* bob's deleteProduct on the product of alice was refused and the product is
\* still there.
C16_Witness ==
    /\ last.op = "deleteProduct" /\ last.caller \in Users /\ last.found
    /\ last.caller # last.product.ownerId
    /\ last.result = AuthorizationError("You can only delete your own products")
    /\ last.pid \in DOMAIN products

\* The error of the last call, had the product id it named not existed.
IfAbsent(rec) ==
    IF rec.op = "updateProduct"
      THEN updateProductCheck(getUserIdFromRequest(rec.caller), FALSE, NoProduct, rec.input)
      ELSE deleteProductCheck(getUserIdFromRequest(rec.caller), FALSE, NoProduct)

\* The products that exist and that user u does not own.
NotOwnedBy(u) == {p \in DOMAIN products : products[p].ownerId # u}

\* C17: the error updateProduct or deleteProduct returns to an authenticated
\* caller for an existing product of somebody else is the error it returns for
\* a product id that does not exist.
C17_NoExistenceLeak ==
    last.op \in {"updateProduct", "deleteProduct"} /\ last.caller \in Users
      /\ last.found /\ last.product.ownerId # last.caller =>
        last.result = IfAbsent(last)

\* C17 as amended: (1) the resolvers of resolvers.ts answer an authenticated
\* caller with the same error for an existing product of somebody else and for
\* an absent id; (2) updateProduct and deleteProduct of mutations.ts answer an
\* unauthenticated caller with the same Authentication error whether or not
\* the product exists; (3) they answer an authenticated caller with
\* Authorization for an existing product of somebody else and with NotFound
\* for an absent id.
C17_LeakOnlyToAuthenticated ==
    /\ \A u \in Users : \A p \in NotOwnedBy(u) :
         /\ legacyUpdateProductCheck(Some(u), TRUE, products[p]) =
              legacyUpdateProductCheck(Some(u), FALSE, NoProduct)
         /\ legacyDeleteProductCheck(Some(u), TRUE, products[p]) =
              legacyDeleteProductCheck(Some(u), FALSE, NoProduct)
         /\ legacyDeleteProductCheck(Some(u), TRUE, products[p]) = Error("Forbidden")
    /\ last.op \in {"updateProduct", "deleteProduct"} /\ last.caller \notin Users =>
         /\ last.result.kind = "Authentication"
         /\ last.result = IfAbsent(last)
    /\ last.op \in {"updateProduct", "deleteProduct"} /\ last.caller \in Users =>
         /\ last.found /\ last.product.ownerId # last.caller =>
              last.result.kind = "Authorization" /\ IfAbsent(last).kind = "NotFound"
         /\ ~last.found => last.result = IfAbsent(last)

\* bob's updateProduct on the product of alice got an answer that an absent
\* product id does not get.
C17_Witness ==
    /\ last.op = "updateProduct" /\ last.caller \in Users /\ last.found
    /\ last.caller # last.product.ownerId
    /\ last.result = AuthorizationError("You can only update your own products")
    /\ IfAbsent(last) = NotFoundError("Product not found")

\* C18: for an authenticated caller and every filter string other than
\* BOUGHT, SOLD, BORROWED and LENT, those that name inherited object
\* properties included, myTransactionHistory returns the empty list and never
\* an error.
C18_UnknownFilterEmpty ==
    \A u \in Users : \A f \in FilterStrings \ TransactionFilter :
      myTransactionHistoryResponses(u, f) = {Rows({})}

\* The unsold products that viewer c does not own (all the unsold ones for an
\* anonymous viewer).
Available(c) ==
    {p \in DOMAIN products : ~products[p].isSold /\ (c \in Users => products[p].ownerId # c)}

\* C19: allProducts returns exactly the products with isSold = false whose
\* owner is not the viewer, with no owner excluded for an anonymous viewer, and
\* a product for which a buyProduct has succeeded (one with a BUY row) is
\* never in it.
C19_MarketplaceListing ==
    \A c \in Callers :
      /\ allProducts(c) = Available(c)
      /\ legacyAllProducts(c) = Available(c)
      /\ \A p \in DOMAIN products : BuysOf(p) # {} => p \notin allProducts(c)

\* C20: myProducts for an authenticated user returns exactly the user's
\* products with isSold = false, and the two implementations of the query
\* return the same set.
C20_BothAgree ==
    \A u \in Users :
      /\ myProducts(u) = {p \in DOMAIN products : products[p].ownerId = u /\ ~products[p].isSold}
      /\ legacyMyProducts(u) = myProducts(u)

\* C20 as amended: myProducts of queries.ts returns exactly the user's
\* products with isSold = false; myProducts of resolvers.ts returns all the
\* user's products, the sold ones included, so the former is the latter
\* without the sold products.
C20_ModularExcludesSold ==
    \A u \in Users :
      /\ myProducts(u) = {p \in DOMAIN products : products[p].ownerId = u /\ ~products[p].isSold}
      /\ legacyMyProducts(u) = {p \in DOMAIN products : products[p].ownerId = u}
      /\ myProducts(u) = {p \in legacyMyProducts(u) : ~products[p].isSold}

\* alice's product has been bought: one implementation lists it for her, the
\* other does not.
C20_Witness ==
    /\ \E p \in legacyMyProducts("alice") : products[p].isSold /\ BuysOf(p) # {}
    /\ myProducts("alice") # legacyMyProducts("alice")

\* The closed intervals [S, E] and [t.startDate, t.endDate] intersect.
Intersects(t, S, E) == S <= t.endDate[1] /\ E >= t.startDate[1]

\* C21: for every RENT transaction in the ledger (its start before its end)
\* and every proposed stay [S, E] with S < E, the three clauses of
\* rentProduct's conflict query hold exactly when the closed intervals
\* intersect, stays that touch the rental at one endpoint included; and the
\* query of a call answers Conflict exactly when a rental of the product
\* intersects its stay.
C21_ClausesAreIntersection ==
    [][/\ \A t \in transactions : \A S \in Dates, E \in Dates :
            t.type = "RENT" /\ S < E =>
              (rentClauses(t, S, E) <=> Intersects(t, S, E))
       /\ \A r \in Reqs :
            req[r].pc = "rent_conflicts" /\ req'[r] # req[r] =>
              (req'[r].pc = "idle" /\ last'.result.kind = "Conflict"
                 <=> \E t \in RentsOf(req[r].pid) :
                       Intersects(t, req[r].input.startDate[1], req[r].input.endDate[1]))]_vars

\* A stay was refused that only touches a rental: it ends the instant the
\* rental starts.
C21_Witness ==
    /\ last.op = "rentProduct"
    /\ last.result = ConflictError("Product is already rented during this period")
    /\ \E t \in RentsOf(last.pid) : t.startDate = last.input.endDate
    /\ \A t \in RentsOf(last.pid) : t.startDate[1] >= last.input.endDate[1]

\* The steps of buy in their order, as the errors they report.
BuySteps ==
    <<AuthenticationError("You must be logged in to buy a product"),
      NotFoundError("Product not found"),
      ConflictError("Product is already sold"),
      ConflictError("Cannot buy your own product"),
      ValidationError("Product does not have a purchase price set"),
      ConflictError("Cannot buy product while it is currently rented")>>

\* The steps of buy whose precondition fails for a call as it reads the store
\* (a step past NotFound fails only for a product that is there; a price of 0
\* is no purchase price).
BuyFailing(rec, rented) ==
    {k \in 1..6 :
       CASE k = 1 -> rec.caller \notin Users
         [] k = 2 -> ~rec.found
         [] k = 3 -> rec.found /\ rec.product.isSold
         [] k = 4 -> rec.found /\ rec.product.ownerId = rec.caller
         [] k = 5 -> rec.found /\ ~Truthy(rec.product.price)
         [] k = 6 -> rented}

Earliest(S) == CHOOSE k \in S : \A j \in S : k <= j

\* C22: when several preconditions of buyProduct fail at once, the error is
\* that of the earliest failing step in the order Authentication, NotFound,
\* Conflict (sold), Conflict (owner), Validation (no purchase price), Conflict
\* (a RENT with endDate >= now); a call reaches the query for rentals only when
\* none of the first five fails.
C22_BuyErrorOrder ==
    [][/\ RespondedAtOnce /\ last'.op = "buyProduct" =>
            LET failing == BuyFailing(last', activeRentals(last'.pid, clock) # {})
            IN  /\ failing \cap 1..5 # {}
                /\ last'.result = BuySteps[Earliest(failing)]
       /\ \A r \in Reqs :
            /\ req[r].pc = "idle" /\ req'[r].pc = "buy_rentals" =>
                 BuyFailing(req'[r], FALSE) = {}
            /\ RespondedLater(r, "buy_rentals") =>
                 /\ BuyFailing(req[r], activeRentals(req[r].pid, clock) # {}) = {6}
                 /\ last'.result = BuySteps[6]]_vars

\* The owner asked to buy her own product after it was sold: two steps fail
\* and the earlier one is reported.
C22_Witness ==
    /\ last.op = "buyProduct" /\ last.found
    /\ last.product.isSold /\ last.product.ownerId = last.caller
    /\ last.result = ConflictError("Product is already sold")

\* The steps of rent in their order, as the errors they report.
RentSteps ==
    <<AuthenticationError("You must be logged in to rent a product"),
      NotFoundError("Product not found"),
      ConflictError("Cannot rent a product that is already sold"),
      ConflictError("Cannot rent your own product"),
      ValidationError("Product does not have rental options configured"),
      ValidationError("Invalid date format"),
      ValidationError("End date must be after start date"),
      ValidationError("Start date cannot be in the past"),
      ConflictError("Product is already rented during this period")>>

Parseable(s) == s \in {Some(d) : d \in Dates}

\* The steps of rent whose precondition fails for a call as it reads the store
\* (a rental price of 0 is no rental price; a comparison of dates fails only
\* for dates that parse).
RentFailing(rec, now, overlap) ==
    {k \in 1..9 :
       CASE k = 1 -> rec.caller \notin Users
         [] k = 2 -> ~rec.found
         [] k = 3 -> rec.found /\ rec.product.isSold
         [] k = 4 -> rec.found /\ rec.product.ownerId = rec.caller
         [] k = 5 -> rec.found /\ (~Truthy(rec.product.rentPrice) \/ rec.product.rentType = Null)
         [] k = 6 -> ~Parseable(rec.input.startDate) \/ ~Parseable(rec.input.endDate)
         [] k = 7 -> /\ Parseable(rec.input.startDate) /\ Parseable(rec.input.endDate)
                     /\ rec.input.endDate[1] <= rec.input.startDate[1]
         [] k = 8 -> Parseable(rec.input.startDate) /\ rec.input.startDate[1] < now
         [] k = 9 -> overlap}

\* A RENT transaction of the product intersects the stay the call asks for.
Overlap(rec) ==
    /\ Parseable(rec.input.startDate) /\ Parseable(rec.input.endDate)
    /\ \E t \in RentsOf(rec.pid) :
         Intersects(t, rec.input.startDate[1], rec.input.endDate[1])

C24_ErrorsLeaveStore ==
    [][/\ RespondedAtOnce /\ last'.op \in {"buyProduct", "rentProduct"} =>
            products' = products /\ transactions' = transactions
       /\ \A r \in Reqs :
            req[r].pc \in {"buy_rentals", "buy_update", "buy_create",
                           "rent_conflicts", "rent_create"} /\ req'[r] # req[r] =>
              \/ products' = products /\ transactions' = transactions
              \/ req'[r].pc = "idle" /\ last'.result = Ok]_vars

\* A purchase was aborted after its update of the product: the product is
\* unsold and the ledger has no BUY row for it.
C24_Witness ==
    /\ last.op = "buyProduct"
    /\ last.result = PrismaError("Transaction failed")
    /\ ~products[last.pid].isSold
    /\ BuysOf(last.pid) = {}

\* C25: a rentProduct that succeeds changes nothing in the products (isSold,
\* prices, rentType, owner and views as they were) and adds exactly one
\* transaction, a RENT, to the ledger, every earlier row kept.
C25_RentFrame ==
    [][\A r \in Reqs :
         RespondedLater(r, "rent_create") /\ last'.result = Ok =>
           /\ products' = products
           /\ transactions \subseteq transactions'
           /\ Cardinality(transactions' \ transactions) = 1
           /\ \A t \in transactions' \ transactions :
                /\ t.type = "RENT" /\ t.productId = req[r].pid
                /\ t.userId = req[r].caller]_vars

\* The product is unsold and has gathered two rentals that do not overlap.
C25_Witness ==
    /\ last.op = "rentProduct" /\ last.result = Ok
    /\ ~products[last.pid].isSold
    /\ Cardinality(RentsOf(last.pid)) = 2
    /\ \E t1 \in RentsOf(last.pid), t2 \in RentsOf(last.pid) :
         t1.endDate[1] < t2.startDate[1]

\* C26: an updateProduct that succeeds changes only the fields its input
\* supplies: a key that is given takes the input's value, every key that is not
\* given keeps the value the row had, and ownerId, views and datePosted are as
\* they were; no other product changes.
C26_UpdateFrame ==
    [][\A r \in Reqs :
         RespondedLater(r, "update_write") /\ last'.result = Ok =>
           LET pid == req[r].pid
               input == req[r].input
           IN  /\ DOMAIN products' = DOMAIN products
               /\ \A f \in UpdateFields :
                    products'[pid][f] = IF f \in input.given THEN input[f]
                                                           ELSE products[pid][f]
               /\ products'[pid].ownerId = products[pid].ownerId
               /\ products'[pid].views = products[pid].views
               /\ products'[pid].datePosted = products[pid].datePosted
               /\ \A p \in DOMAIN products \ {pid} : products'[p] = products[p]]_vars

\* An update of the title alone succeeded on a product that has been viewed,
\* some time after it was posted: the title is new, pricing and views are not.
C26_Witness ==
    /\ last.op = "updateProduct" /\ last.result = Ok
    /\ last.input.given = {"title"}
    /\ products[last.pid].title = "t2"
    /\ products[last.pid].price = Some(1) /\ products[last.pid].rentPrice = Some(1)
    /\ products[last.pid].views = 1
    /\ clock > products[last.pid].datePosted

\* C27: the snapshot of a transaction is the live pricing of its product at
\* the moment the row is appended (price for a BUY; rentPrice and rentType for
\* a RENT), whatever updateProduct did between the call's read and its append.
C27_SnapshotIsLive ==
    [][\A t \in transactions' \ transactions :
         /\ t.productId \in DOMAIN products
         /\ t.type = "BUY" => transactionPrice(t) = products[t.productId].price
         /\ t.type = "RENT" =>
              /\ transactionRentPrice(t) = products[t.productId].rentPrice
              /\ transactionRentType(t) = products[t.productId].rentType]_vars

\* C28: every product has at most one BUY transaction in the ledger.
C28_AtMostOneBuy ==
    \A p \in ProductIds : Cardinality(BuysOf(p)) <= 1

\* C29: no updateProduct on a product whose isSold is true succeeds in
\* changing its price, rentPrice or rentType.
C29_SoldPricingFrozen ==
    [][\A r \in Reqs :
         RespondedLater(r, "update_write") /\ req[r].pid \in DOMAIN products
           /\ products[req[r].pid].isSold =>
             /\ products'[req[r].pid].price = products[req[r].pid].price
             /\ products'[req[r].pid].rentPrice = products[req[r].pid].rentPrice
             /\ products'[req[r].pid].rentType = products[req[r].pid].rentType]_vars

\* The rentals of the product of call rec that ended before the stay it asks
\* for starts, and so, for a call that has passed its date validation
\* (startDate >= now), before its now.
EndedBefore(rec) ==
    {t \in RentsOf(rec.pid) : t.endDate[1] < rec.input.startDate[1]}

ReadsCounted(p) == {r \in Reqs : RespondedLater(r, "view_incr") /\ req[r].pid = p}

\* C31: a product is created with a view counter of 0; in every step the
\* counter of a product grows by the number of product reads by others than
\* the owner that complete in that step, and so never decreases and, over any
\* interleaving, grows by exactly the number of such reads; the step of a read
\* changes nothing but the counter, and the writes of updateProduct and
\* buyProduct that land between a read's lookup and its increment, or after
\* it, put their own fields in the row and leave the counter alone.
C31_ViewsCountReads ==
    [][/\ \A p \in DOMAIN products' \ DOMAIN products : products'[p].views = 0
       /\ \A p \in DOMAIN products \cap DOMAIN products' :
            /\ products'[p].views = products[p].views + Cardinality(ReadsCounted(p))
            /\ ReadsCounted(p) # {} =>
                 /\ products'[p] = [products[p] EXCEPT !.views = @ + 1]
                 /\ last'.result = Ok
       /\ \A r \in Reqs :
            /\ RespondedLater(r, "update_write") /\ last'.result = Ok =>
                 \A f \in req[r].input.given :
                   products'[req[r].pid][f] = req[r].input[f]
            /\ RespondedLater(r, "buy_create") =>
                 /\ products'[req[r].pid].isSold
                 /\ BuysOf(req[r].pid)' # BuysOf(req[r].pid)]_vars

\* An updateProduct looked the product up before any view was counted and
\* wrote its price after one was: the row has the view and the new price.
C31_Witness ==
    /\ last.op = "updateProduct" /\ last.result = Ok
    /\ last.input.given = {"price"}
    /\ last.product.views = 0
    /\ last.product.price # last.input.price
    /\ products[last.pid].views = 1
    /\ products[last.pid].price = last.input.price

\* C32: a product that appears in the store is owned by the user whose
\* createProduct call made it, and no step of any operation (updateProduct,
\* buyProduct, rentProduct, the product read) changes the owner of a product
\* that is in the store before and after it: a buyer does not become the owner.
C32_OwnerIsCreator ==
    [][/\ \A p \in DOMAIN products' \ DOMAIN products :
            /\ last'.op = "createProduct" /\ last'.result = Ok /\ last'.pid = p
            /\ getUserIdFromRequest(last'.caller) = Some(products'[p].ownerId)
       /\ \A p \in DOMAIN products \cap DOMAIN products' :
            products'[p].ownerId = products[p].ownerId]_vars

\* bob has just bought the product that alice created: it is sold, the sale
\* is in the ledger under bob, and alice still owns it.
C32_Witness ==
    /\ last.op = "buyProduct" /\ last.result = Ok /\ last.caller = "bob"
    /\ products[last.pid].isSold
    /\ \E t \in BuysOf(last.pid) : t.userId = "bob"
    /\ products[last.pid].ownerId = "alice"

\* The operations that require an identity.
IdentityOps == {"createProduct", "updateProduct", "deleteProduct", "buyProduct",
                "rentProduct"}

\* C33: a request without the header, or with a token that is empty,
\* malformed or expired, has no user id. allProducts then lists every unsold
\* product, the requester's own included; the product read of such a request
\* never returns without counting a view, also when the requester is in fact
\* the owner; myProducts and myTransactionHistory answer with an
\* Authentication error, and every mutation that requires identity responds
\* within its first statement with an Authentication error and leaves the
\* store as it is.
C33_UnidentifiedIsAnonymous ==
    [][/\ \A c \in Unidentified :
            /\ getUserIdFromRequest(c) = Null
            /\ allProducts(c) = {p \in DOMAIN products : ~products[p].isSold}
            /\ myProductsResponse(c).kind = "Authentication"
            /\ \A f \in FilterStrings :
                 \A a \in myTransactionHistoryResponses(c, f) : a.kind = "Authentication"
       /\ \A r \in Reqs :
            /\ req[r].pc = "idle" /\ req'[r].pc # "idle" /\ req'[r].caller \in Unidentified =>
                 req'[r].op = "product"
            /\ RespondedLater(r, "view_incr") /\ req[r].caller \in Unidentified
                 /\ req[r].pid \in DOMAIN products =>
                   /\ last'.result = Ok
                   /\ products' = [products EXCEPT ![req[r].pid].views = @ + 1]
       /\ RespondedAtOnce /\ last'.caller \in Unidentified =>
            /\ UNCHANGED <<products, transactions, nextProductId, nextTxId>>
            /\ last'.op \in IdentityOps => last'.result.kind = "Authentication"
            /\ last'.op = "product" =>
                 ~last'.found /\ last'.result = NotFoundError("Product not found")]_vars

\* alice read her own listing with an expired token, right after creating it,
\* and the read counted a view.
C33_Witness ==
    /\ last.op = "product" /\ last.caller = ExpiredToken /\ last.result = Ok
    /\ calls = 2
    /\ products[last.pid].ownerId = Requester(last.caller)
    /\ products[last.pid].views = 1
====
